---- MODULE Spec2Model ----
(***************************************************************************)
(* Model of the device-binding authentication gate of server.py.          *)
(*                                                                         *)
(* The state is the SQLite table `users` and a pool of request threads of  *)
(* the Flask server, each running the view `index` and, inside it,         *)
(* `login`.  `login` touches the database three times (two SELECTs and an  *)
(* UPDATE with its commit); every statement is atomic on the database, and *)
(* other requests and the provisioning commands (add_user,                 *)
(* update_password, delete_user, each one statement and its commit) may    *)
(* run between two statements of one request.                              *)
(***************************************************************************)
EXTENDS Naturals, FiniteSets, Sequences, TLC

\* Number of request threads of the server that may be in flight together.
NumProcs == 2

Procs == 1..NumProcs

\* Bounds on the machine ids and the plaintext passwords that requests and
\* provisioning commands draw their arguments from.
NumMachines == 2
NumPasswords == 2

\* The two users of tests.py.
Usernames == {"jaidev", "IIT"}
Passwords == 1..NumPasswords
MachineIds == 1..NumMachines

\* The default salt of make_app.
SALT == "$2b$12$emU0Je9vTNLx9RzvGe/go."

\* bcrypt.hashpw(password, salt): a salted one-way hash, here the pair of
\* the salt and the password it was made from (never the plaintext itself).
hashpw(password, salt) == <<salt, password>>

Hashes == {hashpw(pw, SALT) : pw \in Passwords}

\* SQL NULL in the column machine_id (machine ids are 1, 2, ...).
NULL == 0

\* Value of a thread's local that is not set.
None == "None"
NoHash == <<>>
NoMachine == 0

VARIABLES
    users,      \* the table users: a set of rows (username, password, machine_id)
    req,        \* req[p]: the request thread p: where it is in index/login, its locals
    exit        \* the last provisioning command of the CLI, the username it was
                \* given, and how it ended: "returned" or "raised"

vars == <<users, req, exit>>

----------------------------------------------------------------------------
\* The SQL statements of server.py, on a table t.

\* CREATE TABLE users (username TEXT UNIQUE NOT NULL, password TEXT NOT NULL,
\*                     machine_id TEXT NULLABLE): the empty table.
init_db == {}

\* Mutant: the lookup forgets the password.
SelectMachineId_AnyPassword(t, username, password) ==
    {r.machine_id : r \in {x \in t : x.username = username}}

\* SELECT machine_id FROM users WHERE username = ? AND password = ?
SelectMachineId(t, username, password) ==
    {r.machine_id : r \in {x \in t : x.username = username /\ x.password = password}}

\* Mutant: the reverse lookup also matches the accounts without a machine id.
SelectUsername_MatchesNull(t, machine_id) ==
    {r.username : r \in {x \in t : x.machine_id = NULL \/ x.machine_id = machine_id}}

\* Mutant: the reverse lookup finds nobody.
SelectUsername_Nobody(t, machine_id) == {}

\* SELECT username FROM users WHERE machine_id = ?
SelectUsername(t, machine_id) ==
    {r.username : r \in {x \in t : x.machine_id # NULL /\ x.machine_id = machine_id}}

\* Mutant: the UPDATE has no WHERE clause.
UpdateMachineId_NoWhere(t, machine_id, username, password) ==
    {[r EXCEPT !.machine_id = machine_id] : r \in t}

\* Mutant: the UPDATE is never committed.
UpdateMachineId_NotCommitted(t, machine_id, username, password) == t

\* UPDATE users SET machine_id = ? WHERE username = ? AND password = ?
UpdateMachineId(t, machine_id, username, password) ==
    {IF r.username = username /\ r.password = password
        THEN [r EXCEPT !.machine_id = machine_id]
        ELSE r : r \in t}

\* Mutant: the column username is not declared UNIQUE.
UniqueViolation_Never(t, username) == FALSE

\* The UNIQUE constraint on username: an INSERT of a present username fails.
UniqueViolation(t, username) == \E r \in t : r.username = username

\* INSERT INTO users (username, password) VALUES (?, ?)
InsertUser(t, username, password) ==
    t \cup {[username |-> username, password |-> password, machine_id |-> NULL]}

\* Mutant: the row is replaced by a fresh one, as INSERT OR REPLACE would.
UpdatePasswordRows_Replace(t, password, username) ==
    {IF r.username = username
        THEN [username |-> username, password |-> password, machine_id |-> NULL]
        ELSE r : r \in t}

\* UPDATE users SET password = ? WHERE username = ?
UpdatePasswordRows(t, password, username) ==
    {IF r.username = username THEN [r EXCEPT !.password = password] ELSE r : r \in t}

\* Mutant: the row is kept as a tombstone: only its password is blanked.
DeleteRows_Tombstone(t, username) ==
    {IF r.username = username THEN [r EXCEPT !.password = <<>>] ELSE r : r \in t}

\* DELETE FROM users WHERE username = ?
DeleteRows(t, username) == {r \in t : r.username # username}

----------------------------------------------------------------------------
\* The responses of index.

OK == <<"OK", 200>>
Unauthorized == <<"Unauthorized", 401>>
HeaderNotFound == <<"Bad Request: Authentication header 'Seek-Custom-Auth' not found.", 400>>
\* Mutant: a missing key is answered like a rejected login.
MissingKey_Unauthorized(key) == <<"Unauthorized", 401>>

MissingKey(key) == <<"Bad Request: Missing key in authentication header.", key, 400>>
\* An exception that leaves index: the server's error response.
InternalServerError == <<"Internal Server Error", 500>>

\* index: `if login(**auth): return "OK", 200` / `return "Unauthorized", 401`
Respond(result) == IF result = "True" THEN OK ELSE Unauthorized

\* The keys index requires, in the order it looks for them.
Keys == <<"username", "password", "machine_id">>

\* The Seek-Custom-Auth header after parse_qs: absent (None), or a dict with
\* some of the keys.
NoHeader == [absent |-> TRUE]
AuthHeaders ==
    {NoHeader} \cup
    {[k \in K |-> full[k]] :
        full \in [username : Usernames, password : Passwords, machine_id : MachineIds],
        K \in SUBSET {Keys[i] : i \in 1..Len(Keys)}}

\* The first key of Keys that auth lacks (0 when it has them all).
FirstMissing(auth) ==
    IF \A i \in 1..Len(Keys) : Keys[i] \in DOMAIN auth
        THEN 0
        ELSE CHOOSE i \in 1..Len(Keys) :
                /\ Keys[i] \notin DOMAIN auth
                /\ \A j \in 1..(i - 1) : Keys[j] \in DOMAIN auth

----------------------------------------------------------------------------
\* Request threads.

Idle == [pc |-> "idle", username |-> None, password |-> NoHash, machine_id |-> NoMachine,
         result |-> None, branch |-> None, response |-> <<>>]

\* Mutant: an unknown username or wrong password gets its own response.
Return_NoMatchNotFound(r, result, branch) ==
    [r EXCEPT !.pc = "done", !.result = result, !.branch = branch,
              !.response = IF branch = "no_match"
                              THEN <<"Not Found", 404>>
                              ELSE IF result = "True" THEN <<"OK", 200>>
                                                      ELSE <<"Unauthorized", 401>>]

\* The thread returns from login with `result` by the return statement `branch`.
Return(r, result, branch) ==
    [r EXCEPT !.pc = "done", !.result = result, !.branch = branch,
              !.response = Respond(result)]

\* No provisioning command has run.
NoCommand == [command |-> None, username |-> None, status |-> None]

\* The provisioning command `command` for `username` ended with `status`.
Exit(command, username, status) ==
    [command |-> command, username |-> username, status |-> status]

Init ==
    /\ users = init_db
    /\ req = [p \in Procs |-> Idle]
    /\ exit = NoCommand

\* index, up to the call of login: the bad requests are answered here.
Index(p, auth) ==
    /\ req[p].pc = "idle"
    /\ IF auth = NoHeader
          THEN req' = [req EXCEPT ![p] = [Idle EXCEPT !.pc = "done",
                                                      !.response = HeaderNotFound]]
          ELSE IF FirstMissing(auth) # 0
          THEN req' = [req EXCEPT ![p] = [Idle EXCEPT !.pc = "done",
                                   !.response = MissingKey(Keys[FirstMissing(auth)])]]
          ELSE req' = [req EXCEPT ![p] = [Idle EXCEPT !.pc = "select1",
                                   !.username = auth["username"],
                                   !.password = hashpw(auth["password"], SALT),
                                   !.machine_id = auth["machine_id"]]]
    /\ UNCHANGED <<users, exit>>

\* Mutant: a bound account is accepted from any machine.
MachineMatches_Always(stored, machine_id) == TRUE

\* login, line 73: `result[0] == machine_id`.
MachineMatches(stored, machine_id) == stored = machine_id

\* login, lines 51-57 and 72-74: the lookup by username and password.
Select1(p) ==
    /\ req[p].pc = "select1"
    /\ LET rows == SelectMachineId(users, req[p].username, req[p].password)
       IN IF rows = {}
             THEN req' = [req EXCEPT ![p] = Return(@, "False", "no_match")]
             ELSE \E stored \in rows :
                    IF stored = NULL
                       THEN req' = [req EXCEPT ![p].pc = "select2"]
                       ELSE req' = [req EXCEPT ![p] =
                                Return(@, IF MachineMatches(stored, req[p].machine_id)
                                             THEN "True" ELSE "False", "compare")]
    /\ UNCHANGED <<users, exit>>

\* Mutant: a rejected first use marks the account with the refused machine id.
Select2_RejectionBinds(p) ==
    /\ req[p].pc = "select2"
    /\ IF SelectUsername(users, req[p].machine_id) # {}
          THEN /\ req' = [req EXCEPT ![p] = Return(@, "False", "other_user")]
               /\ users' = UpdateMachineId(users, req[p].machine_id,
                                           req[p].username, req[p].password)
          ELSE /\ req' = [req EXCEPT ![p].pc = "update"]
               /\ users' = users
    /\ UNCHANGED exit

\* login, lines 58-65: is the machine id some user's already?
Select2(p) ==
    /\ req[p].pc = "select2"
    /\ IF SelectUsername(users, req[p].machine_id) # {}
          THEN req' = [req EXCEPT ![p] = Return(@, "False", "other_user")]
          ELSE req' = [req EXCEPT ![p].pc = "update"]
    /\ UNCHANGED <<users, exit>>

\* login, lines 66-71: bind the machine id, commit, return True.
Update(p) ==
    /\ req[p].pc = "update"
    /\ users' = UpdateMachineId(users, req[p].machine_id, req[p].username, req[p].password)
    /\ req' = [req EXCEPT ![p] = Return(@, "True", "bind")]
    /\ UNCHANGED exit

\* The response is sent; the thread takes the next request.
Finish(p) ==
    /\ req[p].pc = "done"
    /\ req' = [req EXCEPT ![p] = Idle]
    /\ UNCHANGED <<users, exit>>

----------------------------------------------------------------------------
\* The provisioning commands of the CLI.

add_user(username, password) ==
    /\ IF UniqueViolation(users, username)
          THEN exit' = Exit("add_user", username, "raised") /\ users' = users
          ELSE exit' = Exit("add_user", username, "returned")
               /\ users' = InsertUser(users, username, hashpw(password, SALT))
    /\ UNCHANGED req

update_password(username, new_password) ==
    /\ users' = UpdatePasswordRows(users, hashpw(new_password, SALT), username)
    /\ exit' = Exit("update_pw", username, "returned")
    /\ UNCHANGED req

delete_user(username) ==
    /\ users' = DeleteRows(users, username)
    /\ exit' = Exit("delete_user", username, "returned")
    /\ UNCHANGED req

----------------------------------------------------------------------------
\* Mutant: a failed commit is ignored and login goes on to `return True`.
StorageFailure_CommitIgnored(p) ==
    /\ req[p].pc \in {"select1", "select2", "update"}
    /\ req' = [req EXCEPT ![p] =
                 IF @.pc = "update"
                    THEN [@ EXCEPT !.pc = "done", !.result = "True", !.branch = "bind",
                                   !.response = <<"OK", 200>>]
                    ELSE [@ EXCEPT !.pc = "done", !.result = "raised",
                                   !.branch = "exception",
                                   !.response = <<"Internal Server Error", 500>>]]
    /\ UNCHANGED <<users, exit>>

\* A statement of login, the connection or the commit fails: sqlite3 raises,
\* the `with` block rolls back, and the exception leaves login and index
\* (neither catches anything), so the server answers with its error response.
StorageFailure(p) ==
    /\ req[p].pc \in {"select1", "select2", "update"}
    /\ req' = [req EXCEPT ![p] = [@ EXCEPT !.pc = "done", !.result = "raised",
                                           !.branch = "exception",
                                           !.response = InternalServerError]]
    /\ UNCHANGED <<users, exit>>

----------------------------------------------------------------------------
\* The server under concurrent requests and provisioning commands.
Next ==
    \/ \E p \in Procs, auth \in AuthHeaders : Index(p, auth)
    \/ \E p \in Procs : Select1(p)
    \/ \E p \in Procs : Select2(p)
    \/ \E p \in Procs : Update(p)
    \/ \E p \in Procs : Finish(p)
    \/ \E u \in Usernames, pw \in Passwords : add_user(u, pw)
    \/ \E u \in Usernames, pw \in Passwords : update_password(u, pw)
    \/ \E u \in Usernames : delete_user(u)

Spec == Init /\ [][Next]_vars

\* One call at a time, as in tests.py: a request or a provisioning command
\* starts only when no request is in flight or waiting to be answered.
Quiet == \A q \in Procs : req[q].pc = "idle"

SeqNext ==
    \/ \E p \in Procs, auth \in AuthHeaders : Quiet /\ Index(p, auth)
    \/ \E p \in Procs : Select1(p)
    \/ \E p \in Procs : Select2(p)
    \/ \E p \in Procs : Update(p)
    \/ \E p \in Procs : Finish(p)
    \/ \E u \in Usernames, pw \in Passwords : Quiet /\ add_user(u, pw)
    \/ \E u \in Usernames, pw \in Passwords : Quiet /\ update_password(u, pw)
    \/ \E u \in Usernames : Quiet /\ delete_user(u)

SeqSpec == Init /\ [][SeqNext]_vars

\* One call at a time, with storage failures.
SeqFailNext ==
    \/ SeqNext
    \/ \E p \in Procs : StorageFailure(p)

SeqFailSpec == Init /\ [][SeqFailNext]_vars

----------------------------------------------------------------------------
\* Vocabulary of the properties.

\* The account of `username` has `password` as its hash and machine id `mid`.
HasRow(t, username, password, mid) ==
    [username |-> username, password |-> password, machine_id |-> mid] \in t

\* Some account other than `username` is bound to `mid`.
BoundElsewhere(t, username, mid) ==
    \E r \in t : r.username # username /\ r.machine_id = mid

\* Thread p returns from login in this step.
Returns(p) ==
    /\ req[p].pc \in {"select1", "select2", "update"}
    /\ req'[p].pc = "done"

\* Thread p has returned from login by the return statement `branch`.
Returned(p, branch) == req[p].pc = "done" /\ req[p].branch = branch

----------------------------------------------------------------------------
\* C1: one call at a time, a login with the right password of an unbound
\* account and a machine id no other account is bound to returns True and
\* leaves the account bound to that machine id; the same login of an account
\* already bound to that machine id returns True by the comparison of line 73
\* and leaves the table as it was.
C1_FirstUseBindsRepeatCompares ==
    [][\A p \in Procs : Returns(p) =>
        LET u == req[p].username  h == req[p].password  m == req[p].machine_id
        IN /\ (HasRow(users, u, h, NULL) /\ ~BoundElsewhere(users, u, m))
                => /\ req'[p].result = "True"
                   /\ req'[p].response = OK
                   /\ HasRow(users', u, h, m)
           /\ HasRow(users, u, h, m)
                => /\ req'[p].result = "True"
                   /\ req'[p].response = OK
                   /\ req'[p].branch = "compare"
                   /\ users' = users]_vars

\* A login accepted by the comparison: the account is bound to the machine
\* id of the request, which only an earlier first-use login can have written.
C1_Witness ==
    \E p \in Procs :
        /\ Returned(p, "compare")
        /\ req[p].result = "True"
        /\ HasRow(users, req[p].username, req[p].password, req[p].machine_id)

\* C2: one call at a time, a login with the right password of an account
\* bound to a machine id other than the one presented returns False.
C2_OtherMachineRejected ==
    [][\A p \in Procs : Returns(p) =>
        \A r \in users :
            (/\ r.username = req[p].username
             /\ r.password = req[p].password
             /\ r.machine_id # NULL
             /\ r.machine_id # req[p].machine_id)
            => /\ req'[p].result = "False"
               /\ req'[p].response = Unauthorized
               /\ users' = users]_vars

\* A login with the right password from another machine than the bound one
\* was rejected.
C2_Witness ==
    \E p \in Procs, r \in users :
        /\ Returned(p, "compare")
        /\ req[p].result = "False"
        /\ r.username = req[p].username
        /\ r.password = req[p].password
        /\ r.machine_id \notin {NULL, req[p].machine_id}

\* C3: one call at a time, a login with the right password of an unbound
\* account presenting a machine id that another account is bound to returns
\* False and leaves the account unbound.
C3_SpoofedMachineRejected ==
    [][\A p \in Procs : Returns(p) =>
        LET u == req[p].username  h == req[p].password  m == req[p].machine_id
        IN (HasRow(users, u, h, NULL) /\ BoundElsewhere(users, u, m))
              => /\ req'[p].result = "False"
                 /\ req'[p].response = Unauthorized
                 /\ HasRow(users', u, h, NULL)]_vars

\* An unbound account was rejected on a machine id bound to another account.
C3_Witness ==
    \E p \in Procs :
        /\ Returned(p, "other_user")
        /\ req[p].result = "False"
        /\ HasRow(users, req[p].username, req[p].password, NULL)
        /\ BoundElsewhere(users, req[p].username, req[p].machine_id)

\* C4: one call at a time, a login for an existing username with a password
\* whose hash is not the stored one returns False, whatever the account's
\* machine id (NULL, the one presented, or another).
C4_WrongPasswordRejected ==
    [][\A p \in Procs : Returns(p) =>
        \A r \in users :
            (r.username = req[p].username /\ r.password # req[p].password)
            => /\ req'[p].result = "False"
               /\ req'[p].response = Unauthorized
               /\ users' = users]_vars

\* A login with a wrong password was rejected although the account is bound
\* to the very machine id it presented.
C4_Witness ==
    \E p \in Procs, r \in users :
        /\ Returned(p, "no_match")
        /\ r.username = req[p].username
        /\ r.password # req[p].password
        /\ r.machine_id = req[p].machine_id

----------------------------------------------------------------------------
\* C5: when every thread has returned from a first-use login (the account
\* was found unbound), all for different accounts and all presenting the
\* same machine id, and the rows written by the accepted ones are still in
\* the table, then exactly one of them returned True and exactly one account
\* is bound to that machine id.
C5_ExactlyOneFirstUseWins ==
    \A m \in MachineIds :
        (/\ \A p \in Procs :
                /\ req[p].pc = "done"
                /\ req[p].branch \in {"bind", "other_user"}
                /\ req[p].machine_id = m
                /\ req[p].result = "True"
                      => HasRow(users, req[p].username, req[p].password, m)
         /\ \A p, q \in Procs : p # q => req[p].username # req[q].username)
        => /\ Cardinality({p \in Procs : req[p].result = "True"}) = 1
           /\ Cardinality({r \in users : r.machine_id = m}) = 1

\* C6: no two rows of the table hold the same machine id other than NULL.
C6_MachineIdHeldByOneAccount ==
    \A r1, r2 \in users :
        (r1.machine_id # NULL /\ r1.machine_id = r2.machine_id)
        => r1.username = r2.username

\* C7: no step of a request (of index or login) changes or unsets the
\* machine id of an account that has one.
C7_BoundMachineIdNeverRewritten ==
    [][req' # req =>
        \A r \in users :
            r.machine_id # NULL
            => \E r2 \in users' : r2.username = r.username
                                  /\ r2.machine_id = r.machine_id]_vars

----------------------------------------------------------------------------
\* C8: one call at a time, a login for a username that has no row returns
\* False, and every login that returns False, whichever return statement it
\* left by (no matching row, another machine id, a machine id of another
\* account), is answered with the one response ("Unauthorized", 401).
C8_UnknownUserRejectedLikeAnyOther ==
    [][\A p \in Procs : Returns(p) =>
        /\ (~\E r \in users : r.username = req[p].username)
              => /\ req'[p].result = "False"
                 /\ req'[p].branch = "no_match"
                 /\ users' = users
        /\ req'[p].branch \in {"no_match", "compare", "other_user"}
              /\ req'[p].result = "False"
              => req'[p].response = Unauthorized]_vars

\* A login for a username without a row was answered Unauthorized.
C8_Witness ==
    \E p \in Procs :
        /\ Returned(p, "no_match")
        /\ ~\E r \in users : r.username = req[p].username
        /\ req[p].response = Unauthorized

\* C9: one call at a time, a storage failure at any statement of login ends
\* the request with the exception: the result is neither True nor False, the
\* response is the server error (not OK and not Unauthorized), the table is
\* as before the request's write, and the thread does not run the statement
\* again.
C9_StorageFailureNeverAccepts ==
    [][\A p \in Procs :
        /\ (req[p].pc \in {"select1", "select2", "update"} /\ req'[p].pc = "done"
            /\ req'[p].branch \notin {"no_match", "compare", "other_user", "bind"})
              => /\ req'[p].result = "raised"
                 /\ req'[p].response = InternalServerError
                 /\ req'[p].response \notin {OK, Unauthorized}
                 /\ users' = users
        /\ req[p].result = "raised"
              => /\ req[p].pc = "done"
                 /\ req'[p] \in {req[p], Idle}
        /\ (req'[p].pc = "done" /\ req'[p].result = "True")
              => /\ req'[p].response = OK
                 /\ (req[p].pc = "update" =>
                        users' = UpdateMachineId(users, req[p].machine_id,
                                                 req[p].username, req[p].password))]_vars

\* A login with the right password of an unbound account failed in the
\* database and was answered with the server error; the account is unbound.
C9_Witness ==
    \E p \in Procs :
        /\ Returned(p, "exception")
        /\ req[p].response = InternalServerError
        /\ HasRow(users, req[p].username, req[p].password, NULL)

\* C10: update_password and delete_user for a username that has no row end
\* with an error and leave the table as it was.
C10_MissingUserRaises ==
    [][\A u \in Usernames :
        (/\ ~UniqueViolation(users, u)
         /\ \/ delete_user(u)
            \/ \E pw \in Passwords : update_password(u, pw))
        => exit'.status = "raised" /\ users' = users]_vars

----------------------------------------------------------------------------
\* C11: one call at a time, add_user for a username that has a row ends
\* with an error and leaves the table, and so that row's password hash and
\* machine id, as it was; the table never holds two rows of one username.
C11_DuplicateUserRaises ==
    [][/\ \A u \in Usernames, pw \in Passwords :
            (UniqueViolation(users, u) /\ add_user(u, pw))
            => exit'.status = "raised" /\ users' = users
       /\ \A r1, r2 \in users' : r1.username = r2.username => r1 = r2]_vars

\* The last add_user was refused, and the account of its username is bound
\* to a machine id.
C11_Witness ==
    /\ exit.command = "add_user"
    /\ exit.status = "raised"
    /\ \E r \in users : r.username = exit.username /\ r.machine_id # NULL

----------------------------------------------------------------------------
\* C12: one call at a time, a request without the header, or whose header
\* lacks one of username, password, machine_id, is answered with status 400
\* (neither OK nor Unauthorized) by index itself: login is not entered, the
\* table is as it was, whatever username and password the header carries.
C12_BadRequestBeforeLogin ==
    [][\A p \in Procs, auth \in AuthHeaders :
        (Index(p, auth) /\ (auth = NoHeader \/ FirstMissing(auth) # 0))
        => /\ req'[p].pc = "done"
           /\ req'[p].response[Len(req'[p].response)] = 400
           /\ req'[p].response \notin {OK, Unauthorized}
           /\ req'[p].result = None
           /\ req'[p].branch = None
           /\ users' = users]_vars

\* A request with username and password but no machine_id was answered 400
\* while every account of the table is unbound.
C12_Witness ==
    \E p \in Procs :
        /\ req[p].pc = "done"
        /\ req[p].response = MissingKey("machine_id")
        /\ req[p].result = None
        /\ users # {}
        /\ \A r \in users : r.machine_id = NULL

----------------------------------------------------------------------------
\* login run alone on the table t (no other call between its statements):
\* the value it returns, the return statement it leaves by, and the table
\* it leaves.
login(t, username, password, machine_id) ==
    LET rows == SelectMachineId(t, username, password)
    IN IF rows = {}
          THEN [result |-> "False", branch |-> "no_match", users |-> t]
          ELSE LET stored == CHOOSE x \in rows : TRUE
               IN IF stored = NULL
                     THEN IF SelectUsername(t, machine_id) # {}
                             THEN [result |-> "False", branch |-> "other_user",
                                   users |-> t]
                             ELSE [result |-> "True", branch |-> "bind",
                                   users |-> UpdateMachineId(t, machine_id,
                                                             username, password)]
                     ELSE [result |-> IF MachineMatches(stored, machine_id)
                                         THEN "True" ELSE "False",
                           branch |-> "compare", users |-> t]

\* One call at a time, a thread that returns from login returns what
\* `login` gives on the table the call started on, and leaves its table.
LoginRunsAlone ==
    \A p \in Procs : Returns(p) =>
        LET l == login(users, req[p].username, req[p].password, req[p].machine_id)
        IN /\ req'[p].result = l.result
           /\ req'[p].branch = l.branch
           /\ users' = l.users

\* C13: one call at a time, when a first-use login is rejected because the
\* machine id belongs to another account, the account is left unbound, and a
\* login of the same account and password that follows, with any machine id
\* that no account is bound to, returns True and binds that machine id.
C13_RejectedAccountCanRetry ==
    [][\A p \in Procs :
        /\ LoginRunsAlone
        /\ (Returns(p) /\ req'[p].branch = "other_user")
            => LET u == req[p].username  h == req[p].password
               IN /\ req'[p].result = "False"
                  /\ HasRow(users', u, h, NULL)
                  /\ \A m2 \in MachineIds :
                        (~\E r \in users' : r.machine_id = m2)
                        => /\ login(users', u, h, m2).result = "True"
                           /\ HasRow(login(users', u, h, m2).users, u, h, m2)]_vars

\* A first-use login was rejected on a machine id of another account while
\* some machine id is bound to no account.
C13_Witness ==
    \E p \in Procs :
        /\ Returned(p, "other_user")
        /\ HasRow(users, req[p].username, req[p].password, NULL)
        /\ BoundElsewhere(users, req[p].username, req[p].machine_id)
        /\ \E m2 \in MachineIds : ~\E r \in users : r.machine_id = m2

----------------------------------------------------------------------------
\* C14: one call at a time, a login that returns False (no matching row,
\* another machine id than the bound one, or a machine id of another account)
\* has left by a return statement before the UPDATE, and no step of it has
\* changed the table.
C14_RejectLeavesTable ==
    [][\A p \in Procs :
        /\ (Returns(p) /\ req'[p].result = "False")
            => /\ req[p].pc \in {"select1", "select2"}
               /\ req'[p].branch \in {"no_match", "compare", "other_user"}
               /\ users' = users
        /\ (req'[p] # req[p] /\ req[p].pc \in {"idle", "select1", "select2"})
            => users' = users]_vars

\* A login was rejected while every account of the table is bound.
C14_Witness ==
    \E p \in Procs :
        /\ req[p].pc = "done"
        /\ req[p].result = "False"
        /\ users # {}
        /\ \A r \in users : r.machine_id # NULL

----------------------------------------------------------------------------
\* The usernames of t with their password hashes.
Credentials(t) == {[username |-> r.username, password |-> r.password] : r \in t}

\* C15: one call at a time, no step of a request creates or deletes a row or
\* changes a username or a password hash, and it leaves every row of a
\* username other than the request's exactly as it was: all a request may
\* write is the machine id of the account it names.
C15_LoginWritesOnlyOwnMachineId ==
    [][\A p \in Procs : req'[p] # req[p] =>
        /\ Credentials(users') = Credentials(users)
        /\ Cardinality(users') = Cardinality(users)
        /\ \A r \in users : r.username # req[p].username => r \in users']_vars

\* A first-use login has bound its account while another account, not bound
\* to that machine id, is in the table.
C15_Witness ==
    \E p \in Procs :
        /\ Returned(p, "bind")
        /\ HasRow(users, req[p].username, req[p].password, req[p].machine_id)
        /\ \E r \in users : /\ r.username # req[p].username
                            /\ r.machine_id # req[p].machine_id

----------------------------------------------------------------------------
\* C16: whenever a thread returns True from login, the table it leaves has
\* the row of its username with its password hash and its machine id.
C16_AcceptHasBoundRow ==
    [][\A p \in Procs :
        (Returns(p) /\ req'[p].result = "True")
        => HasRow(users', req[p].username, req[p].password, req[p].machine_id)]_vars

----------------------------------------------------------------------------
\* C17: one call at a time, update_password for a username that has a row
\* changes the password hash of that row and nothing else (its machine id
\* and every other row stay).  On the table it leaves, login with the new
\* password returns True from the machine id the account is bound to and
\* False from every other one, and login with the old password (one whose
\* hash is not the new hash) returns False from every machine id.
C17_UpdatePasswordKeepsBinding ==
    [][/\ LoginRunsAlone
       /\ \A u \in Usernames, pw \in Passwords :
            update_password(u, pw) =>
                LET new == hashpw(pw, SALT)
                IN \A r \in users :
                    /\ r.username # u => r \in users'
                    /\ r.username = u =>
                        /\ users' = (users \ {r}) \cup {[r EXCEPT !.password = new]}
                        /\ r.machine_id # NULL =>
                             \A m \in MachineIds :
                                login(users', u, new, m).result =
                                    IF m = r.machine_id THEN "True" ELSE "False"
                        /\ r.password # new =>
                             \A m \in MachineIds :
                                login(users', u, r.password, m).result = "False"]_vars

\* The last provisioning command was an update_pw of an account that is
\* bound to a machine id.
C17_Witness ==
    /\ exit = Exit("update_pw", exit.username, "returned")
    /\ \E r \in users : r.username = exit.username /\ r.machine_id # NULL

----------------------------------------------------------------------------
====
